---------------------------- MODULE Spec2Model ----------------------------
(***************************************************************************)
(* A model of restock_lambda/restock_listener/app.py: one invocation of    *)
(* lambda_handler, from the event payload it is given to the value it      *)
(* returns or the exception it lets escape.                                *)
(*                                                                         *)
(* Texts (str) are sequences of Unicode code points.  The event is a       *)
(* function from the keys present in the payload to tagged values          *)
(* [type, val]; the user's timeline and os.environ are the state of the    *)
(* outside world the invocation runs against.                              *)
(***************************************************************************)
EXTENDS Integers, Sequences, FiniteSets, TLC

(***************************************************************************)
(* Bound of the model: the total size of one invocation's input (characters *)
(* of the posts and terms, list entries, missing or mistyped fields).       *)
(***************************************************************************)
MaxSize == 5

(***************************************************************************)
(* The characters texts are made of: "A" (65), "a" (97), capital sigma      *)
(* (931) and the fire emoji (128293).  Lowercasing adds small sigma (963)   *)
(* and final small sigma (962).                                             *)
(***************************************************************************)
Alphabet == {65, 97, 931, 128293}

VARIABLES
    event,            \* the Lambda's event payload
    timeline,         \* the posts user_timeline returns for screen_name
    environ,          \* os.environ
    pc,               \* the handler's position
    matching_tweets,  \* lambda_handler's local
    message,          \* lambda_handler's local
    sns_topic_arn,    \* lambda_handler's local
    response,         \* lambda_handler's local
    returned,         \* <<>> until the handler returns, then <<value>>
    raised,           \* the exception that escaped the handler, if any
    calls,            \* history: the calls made to collaborators, in order
    published,        \* history: the requests client.publish received
    thrown,           \* history: every exception, where it was raised
    publish_result    \* history: the mappings client.publish returned

vars == <<event, timeline, environ, pc, matching_tweets, message,
          sns_topic_arn, response, returned, raised, calls, published,
          thrown, publish_result>>

----------------------------------------------------------------------------
(* _verify_event_payload *)

\* variant of required_inputs: the inputs checked in alphabetical order
required_inputs_sorted ==
    <<"access_token", "access_token_secret", "consumer_key", "consumer_secret",
      "screen_name", "search_terms", "special_unicode", "subject">>

required_inputs ==
    <<"subject", "consumer_key", "consumer_secret", "access_token",
      "access_token_secret", "screen_name", "search_terms", "special_unicode">>

NoException == [kind |-> "none", arg |-> ""]

ValueError(required_input) == [kind |-> "ValueError", arg |-> required_input]

AssertionError == [kind |-> "AssertionError", arg |-> ""]

KeyError(key) == [kind |-> "KeyError", arg |-> key]

\* the for loop of lines 39-41, from the i-th required input on
RECURSIVE required_inputs_loop(_, _)
required_inputs_loop(ev, i) ==
    IF i > Len(required_inputs) THEN NoException
    ELSE IF required_inputs[i] \notin DOMAIN ev
         THEN ValueError(required_inputs[i])
         ELSE required_inputs_loop(ev, i + 1)

\* the exception _verify_event_payload raises on ev, NoException if none
verify_event_payload(ev) ==
    LET missing == required_inputs_loop(ev, 1)
    IN  IF missing # NoException THEN missing
        ELSE IF ev["search_terms"].type = "list"
                /\ ev["special_unicode"].type = "list"
             THEN NoException
             ELSE AssertionError

----------------------------------------------------------------------------
(* str.lower, the "in" of two strings, ord *)

\* the characters with the Unicode property Cased, among those that occur
Cased == {65, 97, 931, 962, 963}

\* the characters with the Unicode property Case_Ignorable ("'", ".", ":")
CaseIgnorable == {39, 46, 58}

\* CPython's final_sigma: the capital sigma at i is preceded by a cased
\* letter and not followed by one, case-ignorable characters skipped
final_sigma(text, i) ==
    LET before == {j \in 1..(i - 1) : text[j] \notin CaseIgnorable}
        after == {j \in (i + 1)..Len(text) : text[j] \notin CaseIgnorable}
        last == CHOOSE j \in before : \A k \in before : k <= j
        first == CHOOSE j \in after : \A k \in after : j <= k
    IN  /\ before # {}
        /\ text[last] \in Cased
        /\ (after = {} \/ text[first] \notin Cased)

lower_char(text, i) ==
    CASE text[i] = 65 -> 97
      [] text[i] = 931 -> IF final_sigma(text, i) THEN 962 ELSE 963
      [] OTHER -> text[i]

\* text.lower()
lower(text) == [i \in 1..Len(text) |-> lower_char(text, i)]

\* variant of contains: the operands of "in" exchanged
contains_reversed(sub, text) ==
    \E i \in 0..(Len(sub) - Len(text)) :
        SubSeq(sub, i + 1, i + Len(text)) = text

\* sub in text, for two strings
contains(sub, text) ==
    \E i \in 0..(Len(text) - Len(sub)) :
        SubSeq(text, i + 1, i + Len(sub)) = sub

\* set([ord(character) for character in tweet_text])
unicode_chars(tweet_text) == {tweet_text[i] : i \in DOMAIN tweet_text}

----------------------------------------------------------------------------
(* _get_matching_tweets *)

\* the loop of lines 80-83 from the i-th term on: the value of matching
\* after it, matching being True before
RECURSIVE search_terms_loop(_, _, _)
search_terms_loop(search_terms, i, tweet_text) ==
    IF i > Len(search_terms) THEN TRUE
    ELSE IF ~contains(lower(search_terms[i]), lower(tweet_text))
         THEN FALSE
         ELSE search_terms_loop(search_terms, i + 1, tweet_text)

\* the loop of lines 85-88 from the i-th code point on
RECURSIVE special_unicode_loop(_, _, _, _)
special_unicode_loop(special_unicode, i, unicode_chars_in_tweet, matching) ==
    IF i > Len(special_unicode) THEN matching
    ELSE IF special_unicode[i] \notin unicode_chars_in_tweet
         THEN FALSE
         ELSE special_unicode_loop(special_unicode, i + 1,
                                   unicode_chars_in_tweet, matching)

\* the value of matching at line 90 for one tweet
tweet_matching(tweet_text, search_terms, special_unicode) ==
    special_unicode_loop(special_unicode, 1, unicode_chars(tweet_text),
                         search_terms_loop(search_terms, 1, tweet_text))

\* the loop of lines 74-91 from the i-th tweet on
RECURSIVE user_tweets_loop(_, _, _, _, _)
user_tweets_loop(user_tweets, i, search_terms, special_unicode, acc) ==
    IF i > Len(user_tweets) THEN acc
    ELSE user_tweets_loop(user_tweets, i + 1, search_terms, special_unicode,
            IF tweet_matching(user_tweets[i], search_terms, special_unicode)
            THEN Append(acc, user_tweets[i])
            ELSE acc)

get_matching_tweets(user_tweets, search_terms, special_unicode) ==
    user_tweets_loop(user_tweets, 1, search_terms, special_unicode, <<>>)

----------------------------------------------------------------------------
(* "\n\n".join *)

Separator == <<10, 10>>

\* variant of join: the separator after every item
RECURSIVE join_trailing(_, _)
join_trailing(sep, items) ==
    IF Len(items) = 0 THEN <<>>
    ELSE items[1] \o sep \o join_trailing(sep, Tail(items))

RECURSIVE join(_, _)
join(sep, items) ==
    IF Len(items) = 0 THEN <<>>
    ELSE IF Len(items) = 1 THEN items[1]
    ELSE items[1] \o sep \o join(sep, Tail(items))


----------------------------------------------------------------------------
(* lambda_handler's collaborators *)

\* variant of environ_getitem: os.environ.get(key, "")
environ_get(env, key) ==
    [exc |-> NoException,
     value |-> IF key \in DOMAIN env THEN env[key] ELSE ""]

\* os.environ[key]: the value, or the KeyError the lookup raises
environ_getitem(env, key) ==
    IF key \in DOMAIN env
    THEN [exc |-> NoException, value |-> env[key]]
    ELSE [exc |-> KeyError(key), value |-> ""]

\* variant of publish_request: message and subject exchanged
publish_request_swapped(msg, subject, topic_arn) ==
    [TopicArn |-> topic_arn, Message |-> subject, Subject |-> msg]

\* the keyword arguments _send_message gives client.publish
publish_request(msg, subject, topic_arn) ==
    [TopicArn |-> topic_arn, Message |-> msg, Subject |-> subject]

\* variants of ShouldPublish: len(matching_tweets) > 1 and
\* len(matching_tweets) >= 0
ShouldPublish_MoreThanOne(tweets) == Len(tweets) > 1

ShouldPublish_Always(tweets) == Len(tweets) >= 0

\* len(matching_tweets) > 0
ShouldPublish(tweets) == Len(tweets) > 0

\* what user_timeline raises when the feed service rejects the credentials
\* or cannot be reached
FeedFailures == {"Unauthorized", "ConnectionError"}

\* mappings (sets of key/value pairs) client.publish answers with
Acknowledgments == {{<<"MessageId", "m-1">>}, {<<"MessageId", "m-2">>}}

\* variant of Raise: the exception caught and dropped, the handler going on
\* to return its response
Swallow(exc) ==
    /\ pc' = "return"
    /\ UNCHANGED <<raised, matching_tweets, message, sns_topic_arn, response,
                   returned>>

\* an exception nothing in lambda_handler catches: it ends the invocation
Raise(exc) ==
    /\ pc' = "raised"
    /\ raised' = exc
    /\ UNCHANGED <<matching_tweets, message, sns_topic_arn, response,
                   returned>>

----------------------------------------------------------------------------
(* The inputs of one invocation *)

RECURSIVE TextsOfLen(_)
TextsOfLen(n) ==
    IF n = 0 THEN {<<>>}
    ELSE {Append(t, c) : t \in TextsOfLen(n - 1), c \in Alphabet}

\* the lists of texts of total size b, a text of n characters counting n + 1
RECURSIVE TextSeqsOfSize(_)
TextSeqsOfSize(b) ==
    IF b = 0 THEN {<<>>}
    ELSE UNION {{<<t>> \o r : t \in TextsOfLen(n),
                              r \in TextSeqsOfSize(b - n - 1)} :
                n \in 0..(b - 1)}

StrValue(text) == [type |-> "str", val |-> text]

\* the search_terms or special_unicode field of an event, of size b: a list
\* among lists, or (size 1) a field that is missing, a str or an int
FieldOptions(lists, b) ==
    {[present |-> TRUE, type |-> "list", val |-> v] : v \in lists}
    \cup (IF b = 1
          THEN {[present |-> FALSE, type |-> "list", val |-> <<>>],
                [present |-> TRUE, type |-> "str", val |-> <<>>],
                [present |-> TRUE, type |-> "int", val |-> <<>>]}
          ELSE {})

OtherInputs ==
    {"subject", "consumer_key", "consumer_secret", "access_token",
     "access_token_secret", "screen_name"}

\* the event with the given other inputs missing and the two list fields
MakeEvent(missing, terms, unicode) ==
    LET keys == (OtherInputs \ missing)
                \cup (IF terms.present THEN {"search_terms"} ELSE {})
                \cup (IF unicode.present THEN {"special_unicode"} ELSE {})
    IN  [k \in keys |->
            CASE k = "search_terms" -> [type |-> terms.type, val |-> terms.val]
              [] k = "special_unicode" ->
                    [type |-> unicode.type, val |-> unicode.val]
              [] k = "subject" -> StrValue(<<82>>)
              [] OTHER -> StrValue(<<>>)]

Environs ==
    {[k \in {"sns_topic_arn"} |-> "arn:aws:sns:restock"], [k \in {} |-> ""]}

Init ==
    /\ \E b1 \in 0..MaxSize, b2 \in 0..MaxSize, b3 \in 0..MaxSize,
          b4 \in 0..MaxSize :
          /\ b1 + b2 + b3 + b4 <= MaxSize
          /\ \E missing \in {m \in SUBSET OtherInputs : Cardinality(m) = b1},
                terms \in FieldOptions(TextSeqsOfSize(b2), b2),
                unicode \in FieldOptions(TextsOfLen(b3), b3) :
                event = MakeEvent(missing, terms, unicode)
          /\ timeline \in TextSeqsOfSize(b4)
    /\ environ \in Environs
    /\ pc = "verify"
    /\ matching_tweets = <<>>
    /\ message = <<>>
    /\ sns_topic_arn = ""
    /\ response = {}
    /\ returned = <<>>
    /\ raised = NoException
    /\ calls = <<>>
    /\ published = <<>>
    /\ thrown = <<>>
    /\ publish_result = <<>>

----------------------------------------------------------------------------
(* lambda_handler, step by step *)

world == <<event, timeline, environ>>

\* line 102
VerifyEventPayload ==
    /\ pc = "verify"
    /\ LET exc == verify_event_payload(event)
       IN  IF exc # NoException
           THEN /\ thrown' = Append(thrown, exc)
                /\ Raise(exc)
           ELSE /\ pc' = "auth"
                /\ UNCHANGED <<matching_tweets, message, sns_topic_arn,
                               response, returned, raised, thrown>>
    /\ UNCHANGED <<world, calls, published, publish_result>>

\* lines 104-107
GetAuthorizedTweepyClient ==
    /\ pc = "auth"
    /\ calls' = Append(calls, "tweepy.API")
    /\ pc' = "match"
    /\ UNCHANGED <<world, matching_tweets, message, sns_topic_arn, response,
                   returned, raised, published, thrown, publish_result>>

\* lines 108-111, user_timeline answering
GetMatchingTweets ==
    /\ pc = "match"
    /\ calls' = Append(calls, "user_timeline")
    /\ matching_tweets' = get_matching_tweets(timeline,
                              event["search_terms"].val,
                              event["special_unicode"].val)
    /\ pc' = "join"
    /\ UNCHANGED <<world, message, sns_topic_arn, response, returned, raised,
                   published, thrown, publish_result>>

\* lines 108-111, user_timeline raising
UserTimelineFails ==
    /\ pc = "match"
    /\ calls' = Append(calls, "user_timeline")
    /\ \E e \in FeedFailures :
          /\ thrown' = Append(thrown, [kind |-> e, arg |-> ""])
          /\ Raise([kind |-> e, arg |-> ""])
    /\ UNCHANGED <<world, published, publish_result>>

\* lines 112-115
ComposeMessage ==
    /\ pc = "join"
    /\ message' = join(Separator, matching_tweets)
    /\ response' = {}
    /\ pc' = IF ShouldPublish(matching_tweets) THEN "environ" ELSE "return"
    /\ UNCHANGED <<world, matching_tweets, sns_topic_arn, returned, raised,
                   calls, published, thrown, publish_result>>

\* line 117
ReadEnviron ==
    /\ pc = "environ"
    /\ calls' = Append(calls, "os.environ")
    /\ LET got == environ_getitem(environ, "sns_topic_arn")
       IN  IF got.exc # NoException
           THEN /\ thrown' = Append(thrown, got.exc)
                /\ Raise(got.exc)
           ELSE /\ sns_topic_arn' = got.value
                /\ pc' = "client"
                /\ UNCHANGED <<matching_tweets, message, response, returned,
                               raised, thrown>>
    /\ UNCHANGED <<world, published, publish_result>>

\* line 119
GetSnsClient ==
    /\ pc = "client"
    /\ calls' = Append(calls, "boto3.client")
    /\ pc' = "publish"
    /\ UNCHANGED <<world, matching_tweets, message, sns_topic_arn, response,
                   returned, raised, published, thrown, publish_result>>

\* line 121, client.publish answering
SendMessage ==
    /\ pc = "publish"
    /\ calls' = Append(calls, "publish")
    /\ published' = Append(published,
          publish_request(message, event["subject"].val, sns_topic_arn))
    /\ \E ack \in Acknowledgments :
          /\ publish_result' = Append(publish_result, ack)
          /\ response' = ack
    /\ pc' = "return"
    /\ UNCHANGED <<world, matching_tweets, message, sns_topic_arn, returned,
                   raised, thrown>>

\* line 121, client.publish raising
PublishFails ==
    /\ pc = "publish"
    /\ calls' = Append(calls, "publish")
    /\ published' = Append(published,
          publish_request(message, event["subject"].val, sns_topic_arn))
    /\ thrown' = Append(thrown, [kind |-> "ClientError", arg |-> ""])
    /\ Raise([kind |-> "ClientError", arg |-> ""])
    /\ UNCHANGED <<world, publish_result>>

\* line 122
Return ==
    /\ pc = "return"
    /\ returned' = <<response>>
    /\ pc' = "done"
    /\ UNCHANGED <<world, matching_tweets, message, sns_topic_arn, response,
                   raised, calls, published, thrown, publish_result>>

Next ==
    \/ VerifyEventPayload
    \/ GetAuthorizedTweepyClient
    \/ GetMatchingTweets
    \/ UserTimelineFails
    \/ ComposeMessage
    \/ ReadEnviron
    \/ GetSnsClient
    \/ SendMessage
    \/ PublishFails
    \/ Return

Spec == Init /\ [][Next]_vars

----------------------------------------------------------------------------
(* Vocabulary of the properties *)

Terminal == pc \in {"done", "raised"}

CallCount(op) == Cardinality({i \in DOMAIN calls : calls[i] = op})

\* the order in which the specification lists the required fields
FieldOrder ==
    <<"subject", "consumer_key", "consumer_secret", "access_token",
      "access_token_secret", "screen_name", "search_terms", "special_unicode">>

MissingFields == {FieldOrder[i] : i \in DOMAIN FieldOrder} \ DOMAIN event

FirstMissingField ==
    FieldOrder[CHOOSE i \in DOMAIN FieldOrder :
                  /\ FieldOrder[i] \in MissingFields
                  /\ \A j \in 1..(i - 1) : FieldOrder[j] \notin MissingFields]

ListsAreLists ==
    /\ event["search_terms"].type = "list"
    /\ event["special_unicode"].type = "list"

ValidationSucceeds == MissingFields = {} /\ ListsAreLists

\* user_timeline was called and answered with the timeline
FetchSucceeded ==
    /\ CallCount("user_timeline") = 1
    /\ \A i \in DOMAIN thrown : thrown[i].kind \notin FeedFailures

TopicConfigured == "sns_topic_arn" \in DOMAIN environ

\* where the i-th of items starts in their composition, less one
RECURSIVE Offset(_, _)
Offset(items, i) ==
    IF i = 1 THEN 0 ELSE Offset(items, i - 1) + Len(items[i - 1]) + 2

\* msg is items, in order, two newlines between consecutive ones and
\* nothing else
IsComposition(msg, items) ==
    /\ Len(msg) = IF items = <<>> THEN 0
                  ELSE Offset(items, Len(items)) + Len(items[Len(items)])
    /\ \A i \in DOMAIN items :
          SubSeq(msg, Offset(items, i) + 1,
                 Offset(items, i) + Len(items[i])) = items[i]
    /\ \A i \in 1..(Len(items) - 1) :
          /\ msg[Offset(items, i + 1) - 1] = 10
          /\ msg[Offset(items, i + 1)] = 10

\* simple case folding: "A" to "a", every sigma to small sigma
CaseFold(c) ==
    CASE c = 65 -> 97
      [] c \in {931, 962} -> 963
      [] OTHER -> c

\* term occurs in text as a substring, letter case disregarded
OccursCaseInsensitively(term, text) ==
    \E i \in 0..(Len(text) - Len(term)) :
        \A j \in 1..Len(term) : CaseFold(term[j]) = CaseFold(text[i + j])

\* every term occurs in the post and every code point is one of its
\* characters'
PostSatisfies(text, terms, codes) ==
    /\ \A i \in DOMAIN terms : OccursCaseInsensitively(terms[i], text)
    /\ \A i \in DOMAIN codes : \E j \in DOMAIN text : text[j] = codes[i]

FilteredFeed(posts, terms, codes) ==
    LET Keep(p) == PostSatisfies(p, terms, codes)
    IN  SelectSeq(posts, Keep)

EmptyPosts(posts) == {i \in DOMAIN posts : posts[i] = <<>>}

----------------------------------------------------------------------------
(* The claims *)

\* C1, as stated: publish is never called more than once, and an invocation
\* that has ended called it once if validation succeeded, the fetch
\* succeeded and at least one post matched, and not at all otherwise.
C1_PublishOnceIffMatch ==
    /\ CallCount("publish") <= 1
    /\ Terminal =>
          CallCount("publish") =
             IF ValidationSucceeds /\ FetchSucceeded /\ matching_tweets # <<>>
             THEN 1 ELSE 0

\* C1, amended: publish is never called more than once, and an invocation
\* that has ended called it once if validation succeeded, the fetch
\* succeeded, at least one post matched and the topic is configured, and not
\* at all otherwise.
C1_PublishOnceIffMatchAndTopic ==
    /\ CallCount("publish") <= 1
    /\ Len(published) = CallCount("publish")
    /\ Terminal =>
          CallCount("publish") =
             IF /\ ValidationSucceeds
                /\ FetchSucceeded
                /\ matching_tweets # <<>>
                /\ TopicConfigured
             THEN 1 ELSE 0

C1_Witness ==
    /\ pc = "done"
    /\ CallCount("publish") = 1
    /\ matching_tweets # <<>>

\* C2: a request lacking required fields fails validation with the error
\* naming the first missing field in the fixed order, and no outbound call
\* is ever made for it.
C2_FirstMissingFieldNamed ==
    MissingFields # {} =>
        /\ pc \in {"verify", "raised"}
        /\ pc = "raised" => raised = ValueError(FirstMissingField)
        /\ calls = <<>>
        /\ published = <<>>
        /\ returned = <<>>

C2_Witness ==
    /\ pc = "raised"
    /\ MissingFields = {"access_token", "screen_name", "special_unicode"}
    /\ raised = ValueError("access_token")

\* C3: the match result is the feed, in feed order and with the raw texts,
\* restricted to the posts in which every term occurs case-insensitively as
\* a substring and of whose characters every listed code point is one.
C3_MatchResultIsFilteredFeed ==
    FetchSucceeded =>
        matching_tweets = FilteredFeed(timeline, event["search_terms"].val,
                                       event["special_unicode"].val)

\* C4: when validation and fetch succeed and nothing matches, the handler
\* goes to its return and returns an empty mapping, having neither read the
\* topic configuration, nor obtained a notification client, nor published.
C4_NoMatchReturnsEmpty ==
    (FetchSucceeded /\ matching_tweets = <<>>) =>
        /\ pc \in {"join", "return", "done"}
        /\ CallCount("os.environ") = 0
        /\ CallCount("boto3.client") = 0
        /\ CallCount("publish") = 0
        /\ published = <<>>
        /\ pc = "done" => returned = <<{}>>

C4_Witness ==
    /\ pc = "done"
    /\ FetchSucceeded
    /\ timeline # <<>>
    /\ matching_tweets = <<>>
    /\ returned = <<{}>>

\* C5: when at least one post matches and the topic is configured, publish
\* is invoked with the configured topic, the composition of the match result
\* and the request's subject, and the handler returns the mapping publish
\* returned.
C5_PublishRequestAndReturn ==
    (Terminal /\ matching_tweets # <<>> /\ TopicConfigured) =>
        /\ Len(published) = 1
        /\ published[1].TopicArn = environ["sns_topic_arn"]
        /\ IsComposition(published[1].Message, matching_tweets)
        /\ published[1].Subject = event["subject"].val
        /\ pc = "done" =>
              /\ Len(publish_result) = 1
              /\ returned = <<publish_result[1]>>

C5_Witness ==
    /\ pc = "done"
    /\ Len(matching_tweets) = 2
    /\ Len(published) = 1
    /\ Len(publish_result) = 1
    /\ returned = <<publish_result[1]>>

\* C6: a request with all eight fields whose search_terms or special_unicode
\* is not a list fails validation with the error kind raised for a missing
\* field, before any outbound call.
C6_MistypedFailsLikeMissing ==
    (Terminal /\ MissingFields = {} /\ ~ListsAreLists) =>
        /\ pc = "raised"
        /\ raised.kind = "ValueError"
        /\ calls = <<>>

\* C7: no outbound step is attempted twice, and an error raised anywhere
\* ends the invocation with that same error: nothing is returned, and a
\* failed fetch is followed by no configuration read, client or publish.
C7_NoRetryNoSwallow ==
    /\ \A op \in {"tweepy.API", "user_timeline", "os.environ",
                  "boto3.client", "publish"} : CallCount(op) <= 1
    /\ thrown # <<>> =>
          /\ Len(thrown) = 1
          /\ pc = "raised"
          /\ raised = thrown[1]
          /\ returned = <<>>
    /\ pc = "raised" => thrown # <<>>
    /\ (\E i \in DOMAIN thrown : thrown[i].kind \in FeedFailures) =>
          /\ calls = <<"tweepy.API", "user_timeline">>
          /\ published = <<>>

C7_Witness ==
    /\ pc = "raised"
    /\ raised.kind = "ConnectionError"
    /\ timeline # <<>>

\* C8: with the topic missing from the configuration, an invocation with no
\* matching post returns an empty mapping, and one with a matching post
\* fails with the configuration error before a notification client is
\* obtained and before any publish.
C8_MissingTopicFatalOnlyWhenMatching ==
    (Terminal /\ FetchSucceeded /\ ~TopicConfigured) =>
        IF matching_tweets = <<>>
        THEN pc = "done" /\ returned = <<{}>>
        ELSE /\ pc = "raised"
             /\ raised = KeyError("sns_topic_arn")
             /\ CallCount("boto3.client") = 0
             /\ CallCount("publish") = 0
             /\ published = <<>>

C8_Witness ==
    /\ pc = "raised"
    /\ raised = KeyError("sns_topic_arn")
    /\ matching_tweets # <<>>

\* C9, as stated: whenever search_terms and special_unicode are not both
\* empty lists, no post with empty text is in the match result.
C9_EmptyPostExcluded ==
    (/\ FetchSucceeded
     /\ (event["search_terms"].val # <<>>
         \/ event["special_unicode"].val # <<>>)) =>
        EmptyPosts(matching_tweets) = {}

\* C9, amended: whenever some term is a non-empty string or special_unicode
\* is non-empty, no post with empty text is in the match result; when every
\* term is the empty string and special_unicode is empty, every post with
\* empty text is.
C9_EmptyPostExcludedByNonEmptyRequirement ==
    FetchSucceeded =>
        LET terms == event["search_terms"].val
            codes == event["special_unicode"].val
        IN  IF (\E i \in DOMAIN terms : terms[i] # <<>>) \/ codes # <<>>
            THEN EmptyPosts(matching_tweets) = {}
            ELSE Cardinality(EmptyPosts(matching_tweets)) =
                 Cardinality(EmptyPosts(timeline))

C9_Witness ==
    /\ FetchSucceeded
    /\ EmptyPosts(timeline) # {}
    /\ \E i \in DOMAIN event["search_terms"].val :
          event["search_terms"].val[i] # <<>>
    /\ matching_tweets # <<>>

\* C10: the composed message is the matched texts in match-result order,
\* exactly two newlines between consecutive ones, nothing before the first
\* or after the last, nothing escaped or truncated.
C10_MessageIsComposition ==
    pc # "join" => IsComposition(message, matching_tweets)

C10_Witness ==
    /\ pc = "publish"
    /\ Len(matching_tweets) = 2
    /\ message = matching_tweets[1] \o <<10, 10>> \o matching_tweets[2]
    /\ matching_tweets[1] # <<>>

=============================================================================
